---- MODULE Spec2Model ----
(***************************************************************************)
(* Model of the BMP codec and raster editor of src/main.cpp:               *)
(*   BMPImageReader::read_image, BMPImageWriter::write_image and           *)
(*   BMPImageEditor::set_pixel / draw_line / draw_diagonal_cross.          *)
(* Files are byte sequences, LONG is a 32-bit two's complement integer.    *)
(***************************************************************************)
EXTENDS Integers, Sequences, FiniteSets, TLC

VARIABLES
    inSpec,     \* description of the input file (how its bytes were laid out)
    inFile,     \* bytes of the input file
    outcome,    \* how read_image(inFile) ended
    image,      \* the BMPImage built by read_image(inFile)
    outFile,    \* bytes written by write_image(image)
    outcome2,   \* how read_image(outFile) ended
    image2,     \* the BMPImage built by read_image(outFile)
    pc,         \* position of main(): "start", "failed", "read", "line",
                \* "returned", "written", "reread", "crashed"
    call,       \* the editor call in progress
    line,       \* locals of the running draw_line
    todo,       \* draw_line calls still to be made by the running editor call
    before,     \* the image when the editor call was entered
    access      \* the indices of the last pixel_at made by the editor call

vars == <<inSpec, inFile, outcome, image, outFile, outcome2, image2, pc,
          call, line, todo, before, access>>

-----------------------------------------------------------------------------
(* Bounds of the model *)

MaxW == 2
MaxH == 2
MaxCut == 3
MaxSteps == 6

-----------------------------------------------------------------------------
(* bmp_types: BYTE, WORD, DWORD, LONG *)

MaxLong == 2147483647
MinLong == -2147483647 - 1

Signature == 19778

ToWORD(bs) == bs[1] + 256 * bs[2]

ToDWORD(bs) == bs[1] + 256 * bs[2] + 65536 * bs[3] + 16777216 * bs[4]

ToLONG(bs) ==
    IF bs[4] < 128
    THEN bs[1] + 256 * bs[2] + 65536 * bs[3] + 16777216 * bs[4]
    ELSE bs[1] + 256 * bs[2] + 65536 * bs[3] + 16777216 * (bs[4] - 256)

WordBytes(v) == <<v % 256, v \div 256>>

LongBytes(v) ==
    IF v >= 0
    THEN <<v % 256, (v \div 256) % 256, (v \div 65536) % 256, v \div 16777216>>
    ELSE LET u == (v + MaxLong) + 1
         IN <<u % 256, (u \div 256) % 256, (u \div 65536) % 256,
              (u \div 16777216) + 128>>

\* std::abs on LONG; abs(INT_MIN) wraps to INT_MIN
LongAbs(v) == IF v = MinLong THEN MinLong ELSE IF v < 0 THEN -v ELSE v

Zeros(n) == [k \in 1..n |-> 0]

-----------------------------------------------------------------------------
(* Pixel, BMPImage *)

MkPixel(b, g, r, a) == [b |-> b, g |-> g, r |-> r, a |-> a]

NoImage == [array_pixels |-> <<>>, width |-> 0, height |-> 0,
            bit_count |-> 0, hdrs |-> <<>>]

BMPImage(array_pixels, width, height, bit_count, hdrs) ==
    [array_pixels |-> array_pixels, width |-> width, height |-> height,
     bit_count |-> bit_count, hdrs |-> hdrs]

-----------------------------------------------------------------------------
(* std::ifstream as used by BMPImageReader: a position and the fail bit.   *)
(* A read that cannot be satisfied leaves the rest of the buffer           *)
(* uninitialized (byte g) and sets the fail bit; no call checks it.        *)

OpenStream == [pos |-> 0, ok |-> TRUE]

read_bytes(f, s, n, g) ==
    LET avail == IF ~s.ok THEN 0
                 ELSE IF s.pos + n <= Len(f) THEN n
                 ELSE IF s.pos < Len(f) THEN Len(f) - s.pos
                 ELSE 0
    IN [bytes |-> [k \in 1..n |-> IF k <= avail THEN f[s.pos + k] ELSE g],
        st    |-> [pos |-> s.pos + avail, ok |-> s.ok /\ avail = n]]

skip_bytes(s, n) == IF s.ok THEN [s EXCEPT !.pos = @ + n] ELSE s

seek_beg(s, p) == IF s.ok THEN [s EXCEPT !.pos = p] ELSE s

-----------------------------------------------------------------------------
(* BMPImageReader *)

Padding(width) == (4 - ((width * 3) % 4)) % 4

\* FixedRow as it would be if the row order of the file were ignored
FixedRowIgnoringOrder(top_down, height, i) == i

FixedRow(top_down, height, i) == IF top_down THEN height - 1 - i ELSE i

RECURSIVE ReadRowPixels(_, _, _, _, _)
ReadRowPixels(f, s, g, n, bit_count) ==
    IF n <= 0 THEN [px |-> <<>>, st |-> s]
    ELSE LET rb == read_bytes(f, s, 1, g)
             rg == read_bytes(f, rb.st, 1, g)
             rr == read_bytes(f, rg.st, 1, g)
             ra == IF bit_count = 32 THEN read_bytes(f, rr.st, 1, g)
                   ELSE [bytes |-> <<g>>, st |-> rr.st]
             pixel == MkPixel(rb.bytes[1], rg.bytes[1], rr.bytes[1], ra.bytes[1])
             rest == ReadRowPixels(f, ra.st, g, n - 1, bit_count)
         IN [px |-> <<pixel>> \o rest.px, st |-> rest.st]

RECURSIVE ReadRows(_, _, _, _, _, _, _, _, _)
ReadRows(f, s, g, i, height, width, bit_count, top_down, arr) ==
    IF i >= height THEN [arr |-> arr, st |-> s]
    ELSE LET row == ReadRowPixels(f, s, g, width, bit_count)
             s2  == IF Padding(width) > 0 THEN skip_bytes(row.st, Padding(width))
                    ELSE row.st
         IN ReadRows(f, s2, g, i + 1, height, width, bit_count, top_down,
                     [arr EXCEPT ![FixedRow(top_down, height, i) + 1] = row.px])

read_array_pixels(f, s, g, off_bits, height, width, bit_count, top_down) ==
    LET fresh == [r \in 1..height |-> [c \in 1..width |-> MkPixel(g, g, g, g)]]
    IN ReadRows(f, seek_beg(s, off_bits), g, 0, height, width, bit_count,
                top_down, fresh)

read_headers(f, s, g, off_bits) ==
    read_bytes(f, seek_beg(s, 0), off_bits, g)

read_image(f, g) ==
    LET sig  == read_bytes(f, OpenStream, 2, g)
        off  == read_bytes(f, skip_bytes(sig.st, 8), 4, g)
        wd   == read_bytes(f, skip_bytes(off.st, 4), 4, g)
        ht   == read_bytes(f, wd.st, 4, g)
        bc   == read_bytes(f, skip_bytes(ht.st, 2), 2, g)
        m_off_bits  == ToDWORD(off.bytes)
        m_width     == ToLONG(wd.bytes)
        top_down    == ToLONG(ht.bytes) < 0
        m_height    == IF top_down THEN LongAbs(ToLONG(ht.bytes)) ELSE ToLONG(ht.bytes)
        m_bit_count == ToWORD(bc.bytes)
    IN IF ToWORD(sig.bytes) # Signature
       THEN [outcome |-> "wrong_signature", image |-> NoImage]
       ELSE IF m_height < 0 \/ (m_height > 0 /\ m_width < 0)
       THEN [outcome |-> "bad_alloc", image |-> NoImage]
       ELSE LET px   == read_array_pixels(f, bc.st, g, m_off_bits, m_height,
                                          m_width, m_bit_count, top_down)
                hdrs == read_headers(f, px.st, g, m_off_bits)
            IN [outcome |-> "image",
                image   |-> BMPImage(px.arr, m_width, m_height, m_bit_count,
                                     hdrs.bytes)]

-----------------------------------------------------------------------------
(* BMPImageWriter *)

RECURSIVE PutRow(_, _)
PutRow(row, bit_count) ==
    IF row = <<>> THEN <<>>
    ELSE LET p == Head(row)
         IN (IF bit_count = 32 THEN <<p.b, p.g, p.r, p.a>> ELSE <<p.b, p.g, p.r>>)
            \o PutRow(Tail(row), bit_count)

RECURSIVE PutRows(_, _, _)
PutRows(img, i, padding) ==
    IF i >= img.height THEN <<>>
    ELSE PutRow(img.array_pixels[i + 1], img.bit_count) \o Zeros(padding)
         \o PutRows(img, i + 1, padding)

write_image(img) == img.hdrs \o PutRows(img, 0, Padding(img.width))

-----------------------------------------------------------------------------
(* LONG arithmetic of draw_line: signed overflow is undefined behaviour;   *)
(* the build either wraps (two's complement) or traps.                     *)

AddOverflows(a, b) ==
    \/ a >= 0 /\ b >= 0 /\ a > MaxLong - b
    \/ a < 0 /\ b < 0 /\ a < MinLong - b

LongAdd(a, b) ==
    IF a >= 0 /\ b >= 0 /\ a > MaxLong - b THEN (a + MinLong) + (b + MinLong)
    ELSE IF a < 0 /\ b < 0 /\ a < MinLong - b THEN (a - MinLong) + (b - MinLong)
    ELSE a + b

SubOverflows(a, b) ==
    IF b = MinLong THEN a >= 0 ELSE AddOverflows(a, -b)

LongSub(a, b) ==
    IF b = MinLong THEN (IF a >= 0 THEN a + MinLong ELSE a - MinLong)
    ELSE LongAdd(a, -b)

LongNeg(a) == IF a = MinLong THEN MinLong ELSE -a

-----------------------------------------------------------------------------
(* BMPImageEditor *)

NoCall == [op |-> "none", x0 |-> 0, y0 |-> 0, x1 |-> 0, y1 |-> 0,
           color |-> MkPixel(0, 0, 0, 0)]

NoLine == [x0 |-> 0, y0 |-> 0, x1 |-> 0, y1 |-> 0, dx |-> 0, dy |-> 0,
           sx |-> 0, sy |-> 0, err |-> 0, fromX |-> 0, fromY |-> 0,
           steps |-> 0, first |-> <<>>, last |-> <<>>, done |-> FALSE]

\* InImage as it would be if the upper bound on x were off by one
InImageInclusive(img, x, y) == x >= 0 /\ x <= img.width /\ y >= 0 /\ y < img.height

\* the guard of set_pixel
InImage(img, x, y) == x >= 0 /\ x < img.width /\ y >= 0 /\ y < img.height

\* m_array_pixels[x][y] exists: height rows of width pixels were allocated
InArray(img, x, y) == x \in 0..(img.height - 1) /\ y \in 0..(img.width - 1)

\* pixel_at(x, y) = color: the possible results, as [image, crashed].
\* Outside the array the store is undefined behaviour: it faults, lands in
\* memory that is not part of the image, or lands in some cell of the image.
pixel_at_store(img, x, y, color) ==
    IF InArray(img, x, y)
    THEN {[image |-> [img EXCEPT !.array_pixels[x + 1][y + 1] = color],
           crashed |-> FALSE]}
    ELSE {[image |-> img, crashed |-> TRUE], [image |-> img, crashed |-> FALSE]}
         \cup {[image |-> [img EXCEPT !.array_pixels[r][c] = color],
                crashed |-> FALSE] :
               r \in 1..img.height, c \in 1..img.width}

set_pixel(img, x, y, color) ==
    IF InImage(img, x, y)
    THEN pixel_at_store(img, x, y, color)
    ELSE {[image |-> img, crashed |-> FALSE]}

\* locals of draw_line before its loop
LineOverflows(x0, y0, x1, y1) ==
    \/ SubOverflows(x1, x0) \/ LongSub(x1, x0) = MinLong
    \/ SubOverflows(y1, y0) \/ LongSub(y1, y0) = MinLong
    \/ AddOverflows(LongAbs(LongSub(x1, x0)), LongNeg(LongAbs(LongSub(y1, y0))))

LineLocals(x0, y0, x1, y1) ==
    LET dx == LongAbs(LongSub(x1, x0))
        dy == LongNeg(LongAbs(LongSub(y1, y0)))
    IN [x0 |-> x0, y0 |-> y0, x1 |-> x1, y1 |-> y1, dx |-> dx, dy |-> dy,
        sx |-> IF x0 < x1 THEN 1 ELSE -1,
        sy |-> IF y0 < y1 THEN 1 ELSE -1,
        err |-> LongAdd(dx, dy), fromX |-> x0, fromY |-> y0,
        steps |-> 0, first |-> <<>>, last |-> <<>>, done |-> FALSE]

\* one iteration of the loop of draw_line, after its set_pixel
LoopBody(l) ==
    IF l.x0 = l.x1 /\ l.y0 = l.y1 THEN [l EXCEPT !.done = TRUE]
    ELSE LET e2 == LongAdd(l.err, l.err)
         IN IF e2 >= l.dy /\ l.x0 = l.x1 THEN [l EXCEPT !.done = TRUE]
            ELSE LET l1 == IF e2 >= l.dy
                           THEN [l EXCEPT !.err = LongAdd(l.err, l.dy),
                                          !.x0 = LongAdd(l.x0, l.sx)]
                           ELSE l
                 IN IF e2 <= l.dx /\ l.y0 = l.y1 THEN [l1 EXCEPT !.done = TRUE]
                    ELSE IF e2 <= l.dx
                    THEN [l1 EXCEPT !.err = LongAdd(l1.err, l.dx),
                                    !.y0 = LongAdd(l1.y0, l.sy)]
                    ELSE l1

LoopOverflows(l) ==
    /\ ~(l.x0 = l.x1 /\ l.y0 = l.y1)
    /\ LET e2 == LongAdd(l.err, l.err)
           stepX == e2 >= l.dy /\ l.x0 # l.x1
           err1 == IF stepX THEN LongAdd(l.err, l.dy) ELSE l.err
           stepY == ~(e2 >= l.dy /\ l.x0 = l.x1) /\ e2 <= l.dx /\ l.y0 # l.y1
       IN \/ AddOverflows(l.err, l.err)
          \/ stepX /\ (AddOverflows(l.err, l.dy) \/ AddOverflows(l.x0, l.sx))
          \/ stepY /\ (AddOverflows(err1, l.dx) \/ AddOverflows(l.y0, l.sy))

-----------------------------------------------------------------------------
(* Input files: a 54-byte BITMAPFILEHEADER + BITMAPINFOHEADER, then the    *)
(* rows in disk order. Layout "bmp" pads each row of width * bit_count / 8 *)
(* bytes to a 4-byte boundary (the file format); layout "reader" pads by   *)
(* the gap read_array_pixels skips. The two agree at 24 bits.              *)

GarbageBytes == {0, 85}

\* the pixel of column c in a row of kind k: every byte of a file is distinct
\* within its row and between the two kinds of row
RowPixel(k, c) == MkPixel(32 * k + 8 * c + 1, 32 * k + 8 * c + 2,
                          32 * k + 8 * c + 3, 32 * k + 8 * c + 4)

RowKinds == {1, 2}

Colors == {MkPixel(5, 6, 7, 8)}

OffBits == 54

RowPad(layout, width, bit_count) ==
    IF layout = "bmp" THEN (4 - ((width * (bit_count \div 8)) % 4)) % 4
    ELSE Padding(width)

RECURSIVE DiskRows(_, _, _)
DiskRows(rows, bit_count, pad) ==
    IF rows = <<>> THEN <<>>
    ELSE PutRow(Head(rows), bit_count) \o Zeros(pad)
         \o DiskRows(Tail(rows), bit_count, pad)

FileHeader(d, dataLen) ==
    (IF d.magic THEN <<66, 77>> ELSE <<66, 66>>)
    \o LongBytes(OffBits + dataLen) \o Zeros(4) \o LongBytes(OffBits)
    \o LongBytes(40) \o LongBytes(d.width) \o LongBytes(d.height)
    \o WordBytes(1) \o WordBytes(d.bit_count)
    \o Zeros(4) \o LongBytes(dataLen) \o Zeros(16)

\* a truncated file (cut > 0) lacks the last cut bytes of its last pixel and
\* the padding after it
FileBytes(d) ==
    LET pad  == RowPad(d.layout, d.width, d.bit_count)
        data == DiskRows(d.rows, d.bit_count, pad)
        full == FileHeader(d, Len(data)) \o data
    IN IF d.cut = 0 THEN full ELSE SubSeq(full, 1, Len(full) - pad - d.cut)

FileSpecs ==
    UNION {
      { [width |-> w, height |-> sign * h, bit_count |-> bc,
         rows |-> [r \in 1..h |-> [c \in 1..w |-> RowPixel(kinds[r], c)]],
         layout |-> layout, cut |-> cut, magic |-> magic] :
            kinds \in [1..h -> RowKinds],
            sign \in {-1, 1}, bc \in {24, 32}, layout \in {"bmp", "reader"},
            cut \in 0..MaxCut, magic \in BOOLEAN }
      : w \in 1..MaxW, h \in 1..MaxH }

\* the files the editor specification starts from: complete 32-bit files
\* of one kind of row
EditFileSpecs ==
    { d \in FileSpecs :
        /\ d.height > 0 /\ d.bit_count = 32 /\ d.layout = "reader"
        /\ d.cut = 0 /\ d.magic
        /\ \A r \in 1..d.height : d.rows[r] = d.rows[1] }

-----------------------------------------------------------------------------
(* main(): construction, then read_image, editor calls, write_image.       *)

InitFrom(specs) ==
    /\ inSpec \in specs
    /\ inFile = FileBytes(inSpec)
    /\ outcome = "none"
    /\ image = NoImage
    /\ outFile = <<>>
    /\ outcome2 = "none"
    /\ image2 = NoImage
    /\ pc = "start"
    /\ call = NoCall
    /\ line = NoLine
    /\ todo = <<>>
    /\ before = NoImage
    /\ access = <<>>

Init == InitFrom(FileSpecs)

InitEdit == InitFrom(EditFileSpecs)

editorVars == <<call, line, todo, before, access>>

ReadImage ==
    /\ pc = "start"
    /\ \E g \in GarbageBytes :
         LET res == read_image(inFile, g)
         IN /\ outcome' = res.outcome
            /\ image' = res.image
            /\ pc' = IF res.outcome = "image" THEN "read" ELSE "failed"
    /\ UNCHANGED <<inSpec, inFile, outFile, outcome2, image2>>
    /\ UNCHANGED editorVars

WriteImage ==
    /\ pc = "read"
    /\ outFile' = write_image(image)
    /\ pc' = "written"
    /\ UNCHANGED <<inSpec, inFile, outcome, image, outcome2, image2>>
    /\ UNCHANGED editorVars

ReadBack ==
    /\ pc = "written"
    /\ \E g \in GarbageBytes :
         LET res == read_image(outFile, g)
         IN /\ outcome2' = res.outcome
            /\ image2' = res.image
    /\ pc' = "reread"
    /\ UNCHANGED <<inSpec, inFile, outcome, image, outFile>>
    /\ UNCHANGED editorVars

\* arguments of the editor calls: around the image, and the ends of LONG
SmallX == -1..MaxW
SmallY == -1..MaxH
LineX == SmallX \cup {MinLong, MaxLong}
LineY == 0..MaxH
CrossX == 0..MaxW
StartX == 0..1
StartY == 0..1

codecVars == <<inSpec, inFile, outcome, outFile, outcome2, image2>>

SetPixel ==
    /\ pc = "read"
    /\ \E x \in SmallX, y \in SmallY, color \in Colors :
         /\ call' = [op |-> "set_pixel", x0 |-> x, y0 |-> y, x1 |-> x, y1 |-> y,
                     color |-> color]
         /\ access' = IF InImage(image, x, y) THEN <<x, y>> ELSE <<>>
         /\ \E res \in set_pixel(image, x, y, color) :
              /\ image' = res.image
              /\ pc' = IF res.crashed THEN "crashed" ELSE "returned"
    /\ before' = image
    /\ UNCHANGED <<line, todo>>
    /\ UNCHANGED codecVars

\* entry of draw_line: the locals are computed; an overflow may trap
EnterLine(x0, y0, x1, y1) ==
    /\ line' = LineLocals(x0, y0, x1, y1)
    /\ \/ pc' = "line"
       \/ LineOverflows(x0, y0, x1, y1) /\ pc' = "crashed"

DrawLine ==
    /\ pc = "read"
    /\ \E x0 \in StartX, x1 \in LineX, y0 \in StartY, y1 \in LineY, color \in Colors :
         /\ call' = [op |-> "draw_line", x0 |-> x0, y0 |-> y0, x1 |-> x1,
                     y1 |-> y1, color |-> color]
         /\ EnterLine(x0, y0, x1, y1)
    /\ todo' = <<>>
    /\ before' = image
    /\ access' = <<>>
    /\ UNCHANGED image
    /\ UNCHANGED codecVars

DrawDiagonalCross ==
    /\ pc = "read"
    /\ \E x1 \in StartX, x2 \in CrossX, y1 \in StartY, y2 \in LineY, color \in Colors :
         /\ call' = [op |-> "draw_diagonal_cross", x0 |-> x1, y0 |-> y1,
                     x1 |-> x2, y1 |-> y2, color |-> color]
         /\ EnterLine(x1, y1, x2, y2)
         /\ todo' = << <<x1, y2, x2, y1>> >>
    /\ before' = image
    /\ access' = <<>>
    /\ UNCHANGED image
    /\ UNCHANGED codecVars

\* one iteration of while (true) in draw_line
LineStep ==
    /\ pc = "line"
    /\ ~line.done
    /\ line.steps < MaxSteps
    /\ \E res \in set_pixel(image, line.x0, line.y0, call.color) :
         /\ image' = res.image
         /\ access' = IF InImage(image, line.x0, line.y0)
                      THEN <<line.x0, line.y0>> ELSE access
         /\ LET here == <<line.x0, line.y0>>
                l == [line EXCEPT !.steps = @ + 1, !.last = here,
                                  !.first = IF line.steps = 0 THEN here ELSE @]
            IN IF res.crashed
               THEN line' = l /\ pc' = "crashed"
               ELSE /\ line' = LoopBody(l)
                    /\ \/ pc' = "line"
                       \/ LoopOverflows(l) /\ pc' = "crashed"
    /\ UNCHANGED <<call, todo, before>>
    /\ UNCHANGED codecVars

\* draw_line returns: to draw_diagonal_cross, which makes its second call,
\* or to the caller of the editor
LineReturn ==
    /\ pc = "line"
    /\ line.done
    /\ IF todo # <<>>
       THEN /\ EnterLine(Head(todo)[1], Head(todo)[2], Head(todo)[3], Head(todo)[4])
            /\ todo' = Tail(todo)
       ELSE /\ pc' = "returned"
            /\ UNCHANGED <<line, todo>>
    /\ UNCHANGED <<call, before, access, image>>
    /\ UNCHANGED codecVars

\* the editor call has returned to main()
Return ==
    /\ pc = "returned"
    /\ pc' = "read"
    /\ call' = NoCall
    /\ line' = NoLine
    /\ todo' = <<>>
    /\ before' = NoImage
    /\ access' = <<>>
    /\ UNCHANGED image
    /\ UNCHANGED codecVars

Next == ReadImage \/ WriteImage \/ ReadBack

Spec == Init /\ [][Next]_vars

NextEdit ==
    \/ ReadImage \/ SetPixel \/ DrawLine \/ DrawDiagonalCross
    \/ LineStep \/ LineReturn \/ Return

SpecEdit == InitEdit /\ [][NextEdit]_vars

-----------------------------------------------------------------------------
(* Properties *)

\* two pixels agree on the channels the image has (alpha only at 32 bits)
SamePixel(p, q, bit_count) ==
    p.b = q.b /\ p.g = q.g /\ p.r = q.r /\ (bit_count = 32 => p.a = q.a)

SamePixels(img1, img2) ==
    /\ img1.width = img2.width /\ img1.height = img2.height
    /\ \A r \in 1..img1.height : \A c \in 1..img1.width :
         SamePixel(img1.array_pixels[r][c], img2.array_pixels[r][c], img1.bit_count)

\* a complete BMP file: rows padded to a 4-byte boundary, nothing cut off
ValidBmp(d) == d.magic /\ d.cut = 0 /\ d.layout = "bmp"

\* a complete file whose rows are laid out with the gap the reader skips
LaidOutAsRead(d) ==
    d.magic /\ d.cut = 0 /\ RowPad(d.layout, d.width, d.bit_count) = Padding(d.width)

RowsOf(d) == IF d.height < 0 THEN -d.height ELSE d.height

Reverse(seq) == [k \in 1..Len(seq) |-> seq[Len(seq) + 1 - k]]

\* the file of the other row order holding the same visual rows
Mirror(d) == [d EXCEPT !.height = -d.height, !.rows = Reverse(d.rows)]

\* C1: for every valid 24- or 32-bit BMP file, of either row order, decoding
\* the file, encoding the image unedited and decoding the output gives the
\* pixels of the first decode at every (row, col).
C1_RoundTripPixels ==
    (pc = "reread" /\ ValidBmp(inSpec))
        => (outcome2 = "image" /\ SamePixels(image2, image))

\* C2: for every valid 24- or 32-bit BMP file, of either row order,
\* write_image(read_image(f)) without edits is byte-for-byte the file f.
C2_ByteFaithfulRewrite ==
    (pc = "written" /\ ValidBmp(inSpec)) => outFile = inFile

\* C3: after a successful decode on-disk row i is in-memory row i when the
\* height field is negative and in-memory row height-1-i when it is positive
\* (the buffer is top-down).
C3_StoredTopDown ==
    (pc = "read" /\ LaidOutAsRead(inSpec))
        => \A i \in 0..(RowsOf(inSpec) - 1) : \A c \in 1..inSpec.width :
             SamePixel(image.array_pixels[(IF inSpec.height < 0 THEN i
                                           ELSE RowsOf(inSpec) - 1 - i) + 1][c],
                       inSpec.rows[i + 1][c], inSpec.bit_count)

C5_TruncatedFails ==
    (pc # "start" /\ inSpec.magic /\ inSpec.cut > 0)
        => (outcome = "io_error" /\ image = NoImage)

\* C6: set_pixel(x, y, color) with x < 0, x >= width, y < 0 or y >= height
\* returns without an error and leaves every pixel, the dimensions and the
\* header bytes as they were, after any earlier editor calls.
C6_SetPixelOutsideIsNoOp ==
    (call.op = "set_pixel"
       /\ (call.x0 < 0 \/ call.x0 >= before.width
           \/ call.y0 < 0 \/ call.y0 >= before.height))
        => (pc = "returned" /\ image = before)

\* C6 witness: set_pixel at x = width has returned, on an image that
\* earlier calls have painted
C6_Witness ==
    /\ call.op = "set_pixel" /\ pc = "returned"
    /\ call.x0 = before.width /\ call.y0 \in 0..(before.height - 1)
    /\ \E r \in 1..before.height : \E c \in 1..before.width :
         before.array_pixels[r][c] \in Colors

\* C7: for every pair of endpoints draw_line makes its first set_pixel call
\* at (x0,y0) and has made its last at (x1,y1) when it stops.
C7_DrawLineEndsAtEndpoint ==
    (pc \in {"line", "returned"} /\ line.done)
        => (line.first = <<line.fromX, line.fromY>>
            /\ line.last = <<line.x1, line.y1>>)

OnSegment(x, y, c) ==
    /\ x \in (IF c.x0 < c.x1 THEN c.x0..c.x1 ELSE c.x1..c.x0)
    /\ y \in (IF c.y0 < c.y1 THEN c.y0..c.y1 ELSE c.y1..c.y0)

\* the cell (x, y) of the pixel array exists and holds color
CellIs(img, x, y, color) ==
    InArray(img, x, y) /\ img.array_pixels[x + 1][y + 1] = color

\* every cell of the array that is not in the set S of (x, y) is as before
OthersUnchanged(S) ==
    /\ image.width = before.width /\ image.height = before.height
    /\ \A r \in 1..before.height : \A c \in 1..before.width :
         <<r - 1, c - 1>> \notin S
            => image.array_pixels[r][c] = before.array_pixels[r][c]

\* C8: for endpoints inside the image that share a coordinate draw_line sets
\* exactly the cells of the segment between them, both included.
C8_StraightSegment ==
    (pc = "returned" /\ call.op = "draw_line"
       /\ InImage(before, call.x0, call.y0) /\ InImage(before, call.x1, call.y1)
       /\ (call.x0 = call.x1 \/ call.y0 = call.y1))
        => LET S == {xy \in (0..(before.width - 1)) \X (0..(before.height - 1)) :
                        OnSegment(xy[1], xy[2], call)}
           IN /\ \A xy \in S : CellIs(image, xy[1], xy[2], call.color)
              /\ OthersUnchanged(S)

\* C9: for a square region inside the image draw_diagonal_cross sets every
\* cell (x1+k, y1+k) and (x1+k, y2-k), k = 0..n, and no other cell.
C9_DiagonalCross ==
    (pc = "returned" /\ call.op = "draw_diagonal_cross"
       /\ InImage(before, call.x0, call.y0) /\ InImage(before, call.x1, call.y1)
       /\ call.x1 - call.x0 = call.y1 - call.y0 /\ call.x1 - call.x0 >= 0)
        => LET n == call.x1 - call.x0
               S == {<<call.x0 + k, call.y0 + k>> : k \in 0..n}
                    \cup {<<call.x0 + k, call.y1 - k>> : k \in 0..n}
           IN /\ \A xy \in S : CellIs(image, xy[1], xy[2], call.color)
              /\ OthersUnchanged(S)

\* C10: every pixel_at made by the editor uses a first index in 0..height-1
\* and a second index in 0..width-1.
C10_IndexSafe ==
    access # <<>> => InArray(before, access[1], access[2])

====
